---- MODULE Spec2Model ----
(***************************************************************************)
(* A model of dh-hltb.py: the HLTB orchestrator (run / load_cache /        *)
(* save_cache), the resolver (query_hltb) and the cache staleness rule     *)
(* (needs_refresh).  One process run is followed by at most one further    *)
(* process run on the cache file the first one left on disk.               *)
(***************************************************************************)
EXTENDS Integers, Sequences, FiniteSets, TLC

\* ------------------------------------------------------------------ bounds
\* The clock counts ticks; a second is TicksPerSecond ticks and a day is
\* SecondsPerDay seconds (both scaled down from the real values).
MaxNow == 5
TicksPerSecond == 2
SecondsPerDay == 2
\* --cache-ttl ranges over -1..MaxTtl
MaxTtl == 1
\* the longest candidate list the provider returns in the resolver specification
MaxResults == 2

\* ------------------------------------------------------------ Python values
\* None for the numeric fields and the timestamp of a Game
None == -1
\* None where a string is expected (a candidate without alias)
NoneStr == <<"None">>

\* bool(value) of a numeric field: None and 0 are falsy
Truthy(v) == v # None /\ v # 0

\* ------------------------------------------------------------------ strings
\* A string is a sequence of one-character strings; "~" stands for the
\* en-dash.

\* str.replace(old, ' ')
Replace(s, old) == [i \in 1..Len(s) |-> IF s[i] = old THEN " " ELSE s[i]]

\* ' '.join(name.split()): a blank survives only between two words
JoinSplit(s) ==
    LET keep(i) == \/ s[i] # " "
                   \/ /\ i > 1
                      /\ s[i-1] # " "
                      /\ \E j \in (i+1)..Len(s) : s[j] # " "
        idxs == SelectSeq([i \in 1..Len(s) |-> i], keep)
    IN  [k \in 1..Len(idxs) |-> s[idxs[k]]]

\* str.strip()
RECURSIVE Strip(_)
Strip(s) ==
    IF s = <<>> THEN s
    ELSE IF Head(s) = " " THEN Strip(Tail(s))
    ELSE IF s[Len(s)] = " " THEN Strip(SubSeq(s, 1, Len(s) - 1))
    ELSE s

\* str.casefold() on the alphabet of the model
Casefold(s) ==
    [i \in 1..Len(s) |-> CASE s[i] = "A" -> "a"
                           [] s[i] = "B" -> "b"
                           [] OTHER -> s[i]]

more_searchable_name(name) ==
    Strip(JoinSplit(Replace(Replace(Replace(name, ":"), "~"), "-")))

\* equal_names raises AttributeError when a name is None
equal_names_raises(names1, names2) ==
    \/ \E i \in 1..Len(names1) : names1[i] = NoneStr
    \/ \E i \in 1..Len(names2) : names2[i] = NoneStr

equal_names(names1, names2) ==
    \E i \in 1..Len(names1) : \E j \in 1..Len(names2) :
        Casefold(more_searchable_name(names1[i]))
            = Casefold(more_searchable_name(names2[j]))

\* --------------------------------------------------------------- the resolver
\* A HowLongToBeatEntry as query_hltb and process_hltb_result read it.  The
\* provider's playtimes belong to the remote game, so they follow game_id.
Entry(id, name, alias, sim) ==
    [game_id |-> id, game_name |-> name, game_alias |-> alias,
     similarity |-> sim,
     main_story |-> id, main_extra |-> id + 1,
     completionist |-> id + 2, all_styles |-> id + 3]

\* the return value None of query_hltb
NoEntry ==
    [game_id |-> None, game_name |-> <<>>, game_alias |-> <<>>,
     similarity |-> 0,
     main_story |-> None, main_extra |-> None,
     completionist |-> None, all_styles |-> None]

\* results = sorted(results, key=lambda x: x.similarity, reverse=True):
\* a stable insertion sort, descending
RECURSIVE InsertBySimilarity(_, _)
InsertBySimilarity(e, sorted) ==
    IF sorted = <<>> THEN <<e>>
    ELSE IF Head(sorted).similarity >= e.similarity
         THEN <<Head(sorted)>> \o InsertBySimilarity(e, Tail(sorted))
         ELSE <<e>> \o sorted

RECURSIVE SortBySimilarity(_)
SortBySimilarity(results) ==
    IF results = <<>> THEN <<>>
    ELSE InsertBySimilarity(results[Len(results)],
                            SortBySimilarity(SubSeq(results, 1, Len(results) - 1)))

\* a mutant of MatchesById: the candidates are not filtered by game_id
MatchesById_NoFilter(results, hltb_id) == results

\* matches = [result for result in results if result.game_id == hltb_id]
MatchesById(results, hltb_id) ==
    LET same(r) == r.game_id = hltb_id IN SelectSeq(results, same)

\* len(results) >= 2 and results[0].similarity == results[1].similarity
TopTie(results) ==
    Len(results) >= 2 /\ results[1].similarity = results[2].similarity

\* What query_hltb does with a non-empty result list: the value it returns
\* ("entry"), None ("none"), or the AttributeError of equal_names ("raise").
Select(title, hltb_id, found) ==
    LET results == SortBySimilarity(found)
        top == results[1]
        matches == MatchesById(results, hltb_id)
        inexact == top.game_name # title /\ top.game_alias # title
    IN  IF Truthy(hltb_id)
        THEN IF Len(matches) # 1
             THEN [kind |-> "none", entry |-> NoEntry]
             ELSE [kind |-> "entry", entry |-> matches[1]]
        ELSE IF inexact /\ equal_names_raises(<<top.game_name, top.game_alias>>,
                                              <<title>>)
        THEN [kind |-> "raise", entry |-> NoEntry]
        ELSE IF \/ TopTie(results)
                \/ inexact /\ ~equal_names(<<top.game_name, top.game_alias>>,
                                            <<title>>)
        THEN [kind |-> "none", entry |-> NoEntry]
        ELSE [kind |-> "entry", entry |-> top]

\* ------------------------------------------------------------------ the data
\* the dh_id of the games of the collection, and the title parse_dh reads
Ids == {1, 2}
DhTitle == [id \in Ids |->
              IF id = 1 THEN <<"a", ":", "b">> ELSE <<"B">>]

\* Game(), as parse_dh fills it in: the HLTB fields are None.  A bool is 1
\* (True) or 0 (False); the year is that of the title's release.
Game(id, title) ==
    [dh_id |-> id, title |-> title, year |-> id,
     wantplay |-> 1, finished |-> 0, finished_ts |-> None, owned |-> 0,
     hltb_id |-> None, time_main |-> None, time_extra |-> None,
     time_complete |-> None, time_all |-> None, hltb_query_ts |-> None]

\* the values of create_dh_gamelist: one Game per dh_id, in input order
GameLists ==
    {<<Game(i, DhTitle[i])>> : i \in Ids}
      \cup {<<Game(p[1], DhTitle[p[1]]), Game(p[2], DhTitle[p[2]])>> :
                p \in {q \in Ids \X Ids : q[1] # q[2]}}

\* parse_args: --cache-ttl and --include-ignored
Args == [cache_ttl : (-1)..MaxTtl, include_ignored : BOOLEAN]

\* a dict without keys
EmptyDict == [id \in {} |-> None]

\* mapping.yaml: absent, or forced remote ids and titles plus the ignored list
MappingFiles ==
    { [exists |-> FALSE, mapping |-> EmptyDict, ignored |-> {}],
      [exists |-> TRUE,
       mapping |-> [id \in {1} |-> [hltb_id |-> 2, hltb_title |-> <<"A", "-", "b">>]],
       ignored |-> {2}] }

\* what HowLongToBeat().search returns: None or a list
NoneResults == [kind |-> "None", list |-> <<>>]
Lists(cands, n) ==
    UNION {[1..k -> cands] : k \in 0..n}
Outputs(cands, n) ==
    {NoneResults} \cup {[kind |-> "list", list |-> l] : l \in Lists(cands, n)}

\* results before the first call of search()
Unset == [kind |-> "unset", list |-> <<>>]

\* the provider's answers during a whole run
RunCandidates ==
    { Entry(1, <<"a", ":", "b">>, <<>>, 2),
      Entry(2, <<"B">>, NoneStr, 2),
      Entry(2, <<"A", " ", "b">>, <<>>, 1) }
RunOutputs == Outputs(RunCandidates, 1)

\* ---------------------------------------------------------------- the cache
\* datetime.isoformat(timespec='seconds') and datetime.fromisoformat
isoformat(ticks) == ticks \div TicksPerSecond
fromisoformat(ts) == ts * TicksPerSecond

\* datetime.timedelta(days=...)
timedelta(days) == days * SecondsPerDay * TicksPerSecond

\* a mutant of needs_refresh: an entry exactly cache_ttl days old is stale
needs_refresh_AtBoundary(hltb_query_ts, cache_ttl, now_ts) ==
    \/ hltb_query_ts = None
    \/ cache_ttl <= 0
    \/ now_ts - fromisoformat(hltb_query_ts) >= timedelta(cache_ttl)

\* a mutant of needs_refresh: a TTL of zero does not force a refresh
needs_refresh_ZeroTtl(hltb_query_ts, cache_ttl, now_ts) ==
    \/ hltb_query_ts = None
    \/ cache_ttl < 0
    \/ now_ts - fromisoformat(hltb_query_ts) > timedelta(cache_ttl)

\* a mutant of needs_refresh: cache_ttl is taken as seconds, not days
needs_refresh_Seconds(hltb_query_ts, cache_ttl, now_ts) ==
    \/ hltb_query_ts = None
    \/ cache_ttl <= 0
    \/ now_ts - fromisoformat(hltb_query_ts) > cache_ttl * TicksPerSecond

needs_refresh(hltb_query_ts, cache_ttl, now_ts) ==
    \/ hltb_query_ts = None
    \/ cache_ttl <= 0
    \/ now_ts - fromisoformat(hltb_query_ts) > timedelta(cache_ttl)

\* the cacheitem save_cache builds from Game._cache_keys and the title
CacheItem(game) ==
    [hltb_id |-> game.hltb_id, time_main |-> game.time_main,
     time_extra |-> game.time_extra, time_complete |-> game.time_complete,
     time_all |-> game.time_all, hltb_query_ts |-> game.hltb_query_ts,
     dh_title |-> game.title]

\* a mutant of HasCacheData: no game counts as empty
HasCacheData_Always(game) == TRUE

\* any([getattr(game, key) for key in Game._cache_keys])
HasCacheData(game) ==
    \/ Truthy(game.hltb_id) \/ Truthy(game.time_main)
    \/ Truthy(game.time_extra) \/ Truthy(game.time_complete)
    \/ Truthy(game.time_all) \/ game.hltb_query_ts # None

\* the keys of a dict in the order yaml.safe_dump writes them
RECURSIVE SortedKeys(_)
SortedKeys(S) ==
    IF S = {} THEN <<>>
    ELSE LET m == CHOOSE x \in S : \A y \in S : x <= y
         IN  <<m>> \o SortedKeys(S \ {m})

\* yaml.safe_dump: the text of the store, one chunk per key
safe_dump(d) ==
    LET keys == SortedKeys(DOMAIN d)
    IN  [k \in 1..Len(keys) |-> <<keys[k], d[keys[k]]>>]

\* yaml.safe_load of a text safe_dump wrote
safe_load(text) ==
    [id \in {text[k][1] : k \in 1..Len(text)} |->
        LET k == CHOOSE k \in 1..Len(text) : text[k][1] = id IN text[k][2]]

\* cache.yaml: absent, or a text; whole is FALSE while the text is cut short
NoFile == [exists |-> FALSE, whole |-> TRUE, text |-> <<>>]

\* a mutant of UpdateCache: the cache is made anew from the games
UpdateCache_OnlyGames(d, gs) ==
    LET fresh == {i \in 1..Len(gs) : HasCacheData(gs[i])}
        ids == {gs[i].dh_id : i \in fresh}
    IN  [id \in ids |->
            CacheItem(gs[CHOOSE i \in fresh : gs[i].dh_id = id])]

\* a mutant of UpdateCache: the games are not written to the cache
UpdateCache_Skip(d, gs) == d

\* the first loop of save_cache: self.cache[game.dh_id] = cacheitem
UpdateCache(d, gs) ==
    LET fresh == {i \in 1..Len(gs) : HasCacheData(gs[i])}
        ids == {gs[i].dh_id : i \in fresh}
    IN  [id \in DOMAIN d \cup ids |->
            IF id \in ids
            THEN CacheItem(gs[CHOOSE i \in fresh : gs[i].dh_id = id])
            ELSE d[id]]

\* the second loop of load_cache: setattr(game, key, cachevals[key])
ApplyCache(d, gs) ==
    [i \in 1..Len(gs) |->
        IF gs[i].dh_id \in DOMAIN d
        THEN LET c == d[gs[i].dh_id]
             IN  [gs[i] EXCEPT !.hltb_id = c.hltb_id,
                               !.time_main = c.time_main,
                               !.time_extra = c.time_extra,
                               !.time_complete = c.time_complete,
                               !.time_all = c.time_all,
                               !.hltb_query_ts = c.hltb_query_ts]
        ELSE gs[i]]

\* a mutant of process_hltb_result: time_main takes the all-styles time
process_hltb_result_AllStyles(game, hltb_result, now_ts) ==
    [game EXCEPT !.time_main = hltb_result.all_styles,
                 !.time_extra = hltb_result.main_extra,
                 !.time_complete = hltb_result.completionist,
                 !.time_all = hltb_result.all_styles,
                 !.hltb_id = hltb_result.game_id,
                 !.hltb_query_ts = isoformat(now_ts)]

process_hltb_result(game, hltb_result, now_ts) ==
    [game EXCEPT !.time_main = hltb_result.main_story,
                 !.time_extra = hltb_result.main_extra,
                 !.time_complete = hltb_result.completionist,
                 !.time_all = hltb_result.all_styles,
                 !.hltb_id = hltb_result.game_id,
                 !.hltb_query_ts = isoformat(now_ts)]

\* ------------------------------------------------------------------ the state
VARIABLES
    pc,            \* where the process is: load_cache, load_mapping, loop,
                   \* search, save_open, save_write, export, exit, killed
    rerun,         \* TRUE in the second process run
    now,           \* the last reading of the UTC clock, in ticks
    args,          \* the parsed command line
    mapping_file,  \* mapping.yaml
    file,          \* cache.yaml
    games,         \* HLTB.games
    cache,         \* HLTB.cache
    mapping,       \* HLTB.mapping without its 'ignored' key
    ignored,       \* HLTB.ignored
    pruned,        \* the keys load_cache deleted from HLTB.cache
    idx,           \* index of run()'s loop
    query_errors,  \* query_errors of run()
    title,         \* title of query_hltb
    tried_our_best,\* tried_our_best of query_hltb
    results,       \* results of query_hltb
    hltb_result,   \* what query_hltb returned or raised
    searched,      \* per record, the titles passed to search()
    status,        \* per record, what run() reported for it
    exc,           \* the exception that ended the run, or "none"
    exit_code,     \* the exit status of the process
    exported,      \* hltb.export() has written the output file
    raw,           \* the games parse_dh returned, over all input files
    gamesdict,     \* the values of gamesdict of create_dh_gamelist, in order
    pos,           \* the place in raw of the game create_dh_gamelist takes next
    merged         \* what the last call of merge_game returned or raised

vars == <<pc, rerun, now, args, mapping_file, file, games, cache, mapping,
          ignored, pruned, idx, query_errors, title, tried_our_best, results,
          hltb_result, searched, status, exc, exit_code, exported,
          raw, gamesdict, pos, merged>>

\* the frame of create_dh_gamelist
mergevars == <<raw, gamesdict, pos, merged>>

\* no call of merge_game yet
NoMerge == [kind |-> "unset", game |-> Game(None, <<>>)]

\* create_dh_gamelist has returned and its frame is gone
Created == raw = <<>> /\ gamesdict = <<>> /\ pos = 0 /\ merged = NoMerge

NoResult == [kind |-> "none", entry |-> NoEntry]

\* the state of a process at its start, before hltb.run()
Fresh(gs) ==
    /\ games = gs
    /\ cache = EmptyDict
    /\ mapping = EmptyDict
    /\ ignored = {}
    /\ pruned = {}
    /\ idx = 0
    /\ query_errors = 0
    /\ title = <<>>
    /\ tried_our_best = FALSE
    /\ results = Unset
    /\ hltb_result = NoResult
    /\ searched = [i \in 1..Len(gs) |-> <<>>]
    /\ status = [i \in 1..Len(gs) |-> "pending"]
    /\ exc = "none"
    /\ exit_code = None

Init ==
    /\ pc = "load_cache"
    /\ rerun = FALSE
    /\ now = 0
    /\ args \in Args
    /\ mapping_file \in MappingFiles
    /\ file = NoFile
    /\ exported = FALSE
    /\ Created
    /\ \E gs \in GameLists : Fresh(gs)

\* a reading of the clock: time does not go back
Clock == now..MaxNow

\* needs_refresh reaches datetime.now() only past its two early returns
ReadsClock(hltb_query_ts, cache_ttl) == hltb_query_ts # None /\ cache_ttl > 0
ClockIf(reads) == IF reads THEN Clock ELSE {now}

\* ---------------------------------------------------------------- load_cache
\* a mutant of StaleKeys: load_cache drops nothing
StaleKeys_None(loaded, cache_ttl, now_ts) == {}

\* the keys of the first loop of load_cache: del self.cache[dh_id]
StaleKeys(loaded, cache_ttl, now_ts) ==
    {id \in DOMAIN loaded :
        needs_refresh(loaded[id].hltb_query_ts, cache_ttl, now_ts)}

LoadCache ==
    /\ pc = "load_cache"
    /\ pc' = "load_mapping"
    /\ IF ~file.exists
       THEN UNCHANGED <<now, cache, pruned, games>>
       ELSE \E t \in ClockIf(file.text # <<>> /\ args.cache_ttl > 0) :
              LET loaded == safe_load(file.text)
                  stale == StaleKeys(loaded, args.cache_ttl, t)
                  kept == [id \in DOMAIN loaded \ stale |-> loaded[id]]
              IN  /\ now' = t
                  /\ cache' = kept
                  /\ pruned' = stale
                  /\ games' = ApplyCache(kept, games)
    /\ UNCHANGED mergevars
    /\ UNCHANGED <<rerun, args, mapping_file, file, mapping, ignored, idx,
                   query_errors, title, tried_our_best, results, hltb_result,
                   searched, status, exc, exit_code, exported>>

\* -------------------------------------------------------------- load_mapping
LoadMapping ==
    /\ pc = "load_mapping"
    /\ pc' = "loop"
    /\ idx' = 1
    /\ IF mapping_file.exists
       THEN /\ mapping' = mapping_file.mapping
            /\ ignored' = mapping_file.ignored
       ELSE UNCHANGED <<mapping, ignored>>
    /\ UNCHANGED mergevars
    /\ UNCHANGED <<rerun, now, args, mapping_file, file, games, cache, pruned,
                   query_errors, title, tried_our_best, results, hltb_result,
                   searched, status, exc, exit_code, exported>>

\* ------------------------------------------------------- the loop of run()
\* a mutant of Skipped: an ignored game is skipped whatever the flag
Skipped_Flagless(dh_id, ign, include_ignored) == dh_id \in ign

\* line 331: game.dh_id in self.ignored and not self.args.include_ignored
Skipped(dh_id, ign, include_ignored) == dh_id \in ign /\ ~include_ignored

\* One iteration up to the search call of query_hltb, or the end of the loop.
LoopNext ==
    /\ pc = "loop"
    /\ results' = Unset
    /\ hltb_result' = NoResult
    /\ tried_our_best' = FALSE
    /\ IF idx > Len(games)
       THEN /\ pc' = "save_open"
            /\ UNCHANGED <<now, idx, title, status>>
       ELSE LET game == games[idx] IN
            IF Skipped(game.dh_id, ignored, args.include_ignored)
            THEN /\ status' = [status EXCEPT ![idx] = "ignored"]
                 /\ idx' = idx + 1
                 /\ UNCHANGED <<pc, now, title>>
            ELSE \E t \in ClockIf(ReadsClock(game.hltb_query_ts, args.cache_ttl)) :
                   /\ now' = t
                   /\ IF ~needs_refresh(game.hltb_query_ts, args.cache_ttl, t)
                      THEN /\ status' = [status EXCEPT ![idx] = "fresh"]
                           /\ idx' = idx + 1
                           /\ UNCHANGED <<pc, title>>
                      ELSE /\ pc' = "search"
                           /\ title' = IF game.dh_id \in DOMAIN mapping
                                       THEN mapping[game.dh_id].hltb_title
                                       ELSE game.title
                           /\ UNCHANGED <<idx, status>>
    /\ UNCHANGED mergevars
    /\ UNCHANGED <<rerun, args, mapping_file, file, games, cache, mapping,
                   ignored, pruned, query_errors, searched, exc, exit_code, exported>>

\* ------------------------------------------------------------------ query_hltb
\* the target remote id of the record under resolution
TargetId(game) ==
    IF game.dh_id \in DOMAIN mapping THEN mapping[game.dh_id].hltb_id ELSE None

\* lines 215-220: results is None and the loop was not left before
RaisesHLTBError(r, tried) == r.kind = "None" /\ ~tried

\* a mutant of Retries: an empty answer is searched again without end
Retries_Always(r, tried) == r.kind = "list" /\ r.list = <<>>

\* lines 215-227: an empty list, and the fallback was not tried yet
Retries(r, tried) == r.kind = "list" /\ r.list = <<>> /\ ~tried

\* a mutant of CountsError: every NoMatch is counted
CountsError_Always(dh_id, ign) == TRUE

\* lines 340-341, for a result None: and game.dh_id not in self.ignored
CountsError(dh_id, ign) == dh_id \notin ign

\* One call of search() and what query_hltb and run() do with its answer,
\* up to the next call of search() or the next iteration of the loop.
Search(outputs) ==
    /\ pc = "search"
    /\ \E r \in outputs :
         LET game == games[idx]
             out == IF r.list = <<>>
                    THEN NoResult
                    ELSE Select(game.title, TargetId(game), r.list)
         IN
         /\ searched' = [searched EXCEPT ![idx] = Append(@, title)]
         /\ results' = r
         /\ IF RaisesHLTBError(r, tried_our_best)
            THEN /\ exc' = "HLTBError"
                 /\ pc' = "save_open"
                 /\ hltb_result' = [kind |-> "raise", entry |-> NoEntry]
                 /\ UNCHANGED <<now, games, idx, query_errors, title,
                                tried_our_best, status>>
            ELSE IF Retries(r, tried_our_best)
            THEN /\ title' = more_searchable_name(title)
                 /\ tried_our_best' = TRUE
                 /\ UNCHANGED <<pc, now, games, idx, query_errors,
                                hltb_result, status, exc>>
            ELSE /\ hltb_result' = out
                 /\ UNCHANGED <<title, tried_our_best>>
                 /\ CASE out.kind = "raise" ->
                           /\ exc' = "Other"
                           /\ pc' = "save_open"
                           /\ UNCHANGED <<now, games, idx, query_errors, status>>
                      [] out.kind = "entry" ->
                           \E t \in Clock :
                             /\ now' = t
                             /\ games' = [games EXCEPT ![idx] =
                                   process_hltb_result(game, out.entry, t)]
                             /\ status' = [status EXCEPT ![idx] = "accepted"]
                             /\ idx' = idx + 1
                             /\ pc' = "loop"
                             /\ UNCHANGED <<query_errors, exc>>
                      [] out.kind = "none" ->
                           /\ query_errors' =
                                 IF CountsError(game.dh_id, ignored)
                                 THEN query_errors + 1 ELSE query_errors
                           /\ status' = [status EXCEPT ![idx] = "nomatch"]
                           /\ idx' = idx + 1
                           /\ pc' = "loop"
                           /\ UNCHANGED <<now, games, exc>>
    /\ UNCHANGED mergevars
    /\ UNCHANGED <<rerun, args, mapping_file, file, cache, mapping, ignored,
                   pruned, exit_code, exported>>

RunSearch == Search(RunOutputs)

\* ---------------------------------------------------------------- save_cache
\* --------------------------------------------------- exceptions in hltb.run()
\* KeyboardInterrupt, or another unexpected exception, at any step of
\* hltb.run(): __main__ catches it and calls save_cache, which updates the
\* cache and opens the file.
Raise ==
    /\ pc \in {"load_cache", "load_mapping", "loop", "search",
               "save_open", "save_write"}
    /\ exc = "none"
    /\ \E e \in {"KeyboardInterrupt", "Other"} : exc' = e
    /\ pc' = "save_write"
    /\ cache' = UpdateCache(cache, games)
    /\ file' = [exists |-> TRUE, whole |-> FALSE, text |-> <<>>]
    /\ title' = <<>>
    /\ tried_our_best' = FALSE
    /\ results' = Unset
    /\ hltb_result' = NoResult
    /\ UNCHANGED mergevars
    /\ UNCHANGED <<rerun, now, args, mapping_file, games, mapping, ignored,
                   pruned, idx, query_errors, searched, status, exit_code, exported>>

\* the loop over self.games, makedirs, and open(mode='w'), which truncates;
\* the frame of query_hltb is gone on every path that leads here
SaveOpen ==
    /\ pc = "save_open"
    /\ pc' = "save_write"
    /\ cache' = UpdateCache(cache, games)
    /\ file' = [exists |-> TRUE, whole |-> FALSE, text |-> <<>>]
    /\ title' = <<>>
    /\ tried_our_best' = FALSE
    /\ results' = Unset
    /\ hltb_result' = NoResult
    /\ UNCHANGED mergevars
    /\ UNCHANGED <<rerun, now, args, mapping_file, games, mapping, ignored,
                   pruned, idx, query_errors, searched, status, exc, exit_code, exported>>

\* a mutant of ExitStatus: only sys.exit(1) makes the status non-zero
ExitStatus_ReRaise(e) == IF e \in {"KeyboardInterrupt", "HLTBError"} THEN 1 ELSE 0

\* the exit status: 0 at the end of the script, 1 after sys.exit(1); an
\* exception nobody catches ends the interpreter with a non-zero status,
\* taken as 1
ExitStatus(e) == IF e = "none" THEN 0 ELSE 1

\* cache_file.write(yaml.safe_dump(self.cache)) and the close of the file;
\* then run() returns, or the handler exits or raises again
SaveWrite ==
    /\ pc = "save_write"
    /\ file' = [exists |-> TRUE, whole |-> TRUE, text |-> safe_dump(cache)]
    /\ IF exc = "none"
       THEN /\ pc' = "export"
            /\ UNCHANGED exit_code
       ELSE /\ pc' = "exit"
            /\ exit_code' = ExitStatus(exc)
    /\ UNCHANGED exported
    /\ UNCHANGED mergevars
    /\ UNCHANGED <<rerun, now, args, mapping_file, games, cache, mapping,
                   ignored, pruned, idx, query_errors, title, tried_our_best,
                   results, hltb_result, searched, status, exc>>

\* hltb.export(), past the try statement: the output file is written and the
\* script ends, or an interrupt or an error of the writer ends the process
Export ==
    /\ pc = "export"
    /\ pc' = "exit"
    /\ \E e \in {"none", "KeyboardInterrupt", "Other"} :
         /\ exc' = e
         /\ exported' = (e = "none")
         /\ exit_code' = ExitStatus(e)
    /\ UNCHANGED mergevars
    /\ UNCHANGED <<rerun, now, args, mapping_file, file, games, cache, mapping,
                   ignored, pruned, idx, query_errors, title, tried_our_best,
                   results, hltb_result, searched, status>>

\* The process is killed (SIGKILL, power loss, or a second interrupt inside
\* the handler): its memory is gone.  While the file is being written, any
\* prefix of the text may have reached the disk.
Kill ==
    /\ pc \notin {"exit", "killed"}
    /\ pc' = "killed"
    /\ IF pc = "save_write"
       THEN \E k \in 0..Len(safe_dump(cache)) :
              file' = [exists |-> TRUE, whole |-> FALSE,
                       text |-> SubSeq(safe_dump(cache), 1, k)]
       ELSE UNCHANGED file
    /\ games' = <<>>
    /\ searched' = <<>>
    /\ status' = <<>>
    /\ cache' = EmptyDict
    /\ mapping' = EmptyDict
    /\ ignored' = {}
    /\ pruned' = {}
    /\ idx' = 0
    /\ query_errors' = 0
    /\ title' = <<>>
    /\ tried_our_best' = FALSE
    /\ results' = Unset
    /\ hltb_result' = NoResult
    /\ exc' = "none"
    /\ UNCHANGED mergevars
    /\ UNCHANGED <<rerun, now, args, mapping_file, exit_code, exported>>

\* ------------------------------------------------------------ the next run
\* After the process has exited, the tool is started once more: later, on a
\* new input and a new command line, with the files the first run left.
Restart ==
    /\ pc = "exit"
    /\ ~rerun
    /\ rerun' = TRUE
    /\ pc' = "load_cache"
    /\ args' \in Args
    /\ \E gs \in GameLists :
         /\ games' = gs
         /\ searched' = [i \in 1..Len(gs) |-> <<>>]
         /\ status' = [i \in 1..Len(gs) |-> "pending"]
    /\ cache' = EmptyDict
    /\ mapping' = EmptyDict
    /\ ignored' = {}
    /\ pruned' = {}
    /\ idx' = 0
    /\ query_errors' = 0
    /\ title' = <<>>
    /\ tried_our_best' = FALSE
    /\ results' = Unset
    /\ hltb_result' = NoResult
    /\ exc' = "none"
    /\ exit_code' = None
    /\ exported' = FALSE
    /\ UNCHANGED mergevars
    /\ UNCHANGED <<now, mapping_file, file>>

Next ==
    \/ LoadCache
    \/ LoadMapping
    \/ LoopNext
    \/ RunSearch
    \/ Raise
    \/ SaveOpen
    \/ SaveWrite
    \/ Export
    \/ Kill
    \/ Restart

Spec == Init /\ [][Next]_vars

\* ------------------------------------------------ the resolver on its own
\* One record is resolved against every answer the provider can give.
QueryTitle == <<"a", ":", "b">>
QueryNames == {<<"a", ":", "b">>, <<"A", " ", "b">>, <<"B">>}
QueryAliases == {NoneStr, <<>>, <<"a", ":", "b">>}
QueryCandidates ==
    {Entry(id, name, alias, sim) :
        id \in 1..2, name \in QueryNames, alias \in QueryAliases, sim \in 1..2}
QueryOutputs == Outputs(QueryCandidates, MaxResults)

QueryMappings ==
    {EmptyDict} \cup
    {[id \in {1} |-> [hltb_id |-> t, hltb_title |-> <<"A", "-", "b">>]] :
        t \in 1..2}

\* run() has loaded the cache (none) and the mapping, and enters its loop
InitQuery ==
    /\ pc = "loop"
    /\ rerun = FALSE
    /\ now = MaxNow
    /\ args = [cache_ttl |-> MaxTtl, include_ignored |-> TRUE]
    /\ mapping \in QueryMappings
    /\ ignored \in {{}, {1}}
    /\ mapping_file = [exists |-> TRUE, mapping |-> mapping, ignored |-> ignored]
    /\ file = NoFile
    /\ games = <<Game(1, QueryTitle)>>
    /\ cache = EmptyDict
    /\ pruned = {}
    /\ idx = 1
    /\ query_errors = 0
    /\ title = <<>>
    /\ tried_our_best = FALSE
    /\ results = Unset
    /\ hltb_result = NoResult
    /\ searched = <<<<>>>>
    /\ status = <<"pending">>
    /\ exc = "none"
    /\ exit_code = None
    /\ exported = FALSE
    /\ Created

QuerySearch == Search(QueryOutputs)

NextQuery ==
    \/ LoopNext
    \/ QuerySearch

SpecQuery == InitQuery /\ [][NextQuery]_vars

\* ------------------------------------------------------ create_dh_gamelist
\* The games of the input files are merged before HLTB is constructed.

\* the number of games parse_dh returns, over all input files
MaxRaw == 3

\* the state of HLTB: not constructed yet
hltbvars == <<rerun, now, args, mapping_file, file, games, cache, mapping,
              ignored, pruned, idx, query_errors, title, tried_our_best,
              results, hltb_result, searched, status, exc, exit_code,
              exported>>

\* the Games parse_dh returns: the year is None when the page gives none,
\* and a game is kept if it is wanted or finished
RawGames ==
    {[Game(id, DhTitle[id]) EXCEPT !.year = y, !.wantplay = w,
                                   !.finished = 1 - w] :
        id \in Ids, y \in {None, 1, 2}, w \in {0, 1}}

RawLists == UNION {[1..n -> RawGames] : n \in 1..MaxRaw}

\* val is None, for the attribute of a Game
IsNone(attr, val) == IF attr = "title" THEN val = NoneStr ELSE val = None

\* a mutant of merge_game: an attribute of entry1 that is falsy is replaced
merge_game_Falsy(entry1, entry2) ==
    IF entry1.dh_id # entry2.dh_id
    THEN [kind |-> "ValueError", game |-> NoMerge.game,
          entry1 |-> entry1, entry2 |-> entry2]
    ELSE [kind |-> "game",
          game |-> [attr \in DOMAIN entry1 |->
                      IF IF attr = "title"
                         THEN entry1[attr] \in {NoneStr, <<>>}
                         ELSE ~Truthy(entry1[attr])
                      THEN entry2[attr] ELSE entry1[attr]],
          entry1 |-> entry1, entry2 |-> entry2]

\* a mutant of merge_game: the dh_id of the entries is not compared
merge_game_NoCheck(entry1, entry2) ==
    [kind |-> "game",
     game |-> [attr \in DOMAIN entry1 |->
                 IF IsNone(attr, entry1[attr])
                 THEN entry2[attr] ELSE entry1[attr]],
     entry1 |-> entry1, entry2 |-> entry2]

\* merge_game: what it returns or raises, and its arguments after the call;
\* the attributes are set on a deep copy of entry1
merge_game(entry1, entry2) ==
    IF entry1.dh_id # entry2.dh_id
    THEN [kind |-> "ValueError", game |-> NoMerge.game,
          entry1 |-> entry1, entry2 |-> entry2]
    ELSE [kind |-> "game",
          game |-> [attr \in DOMAIN entry1 |->
                      IF IsNone(attr, entry1[attr])
                      THEN entry2[attr] ELSE entry1[attr]],
          entry1 |-> entry1, entry2 |-> entry2]

\* a mutant of IndexOf: no key is ever found in gamesdict
IndexOf_Never(dict, dh_id) == 0

\* the place of the key dh_id in gamesdict, or 0
IndexOf(dict, dh_id) ==
    IF \E k \in 1..Len(dict) : dict[k].dh_id = dh_id
    THEN CHOOSE k \in 1..Len(dict) : dict[k].dh_id = dh_id
    ELSE 0

InitMerge ==
    /\ pc = "create"
    /\ raw \in RawLists
    /\ gamesdict = <<>>
    /\ pos = 1
    /\ merged = NoMerge
    /\ rerun = FALSE
    /\ now = MaxNow
    /\ args = [cache_ttl |-> MaxTtl, include_ignored |-> FALSE]
    /\ mapping_file = [exists |-> FALSE, mapping |-> EmptyDict, ignored |-> {}]
    /\ file = NoFile
    /\ exported = FALSE
    /\ Fresh(<<>>)

\* one turn of the inner loop of create_dh_gamelist
CreateStep ==
    /\ pc = "create"
    /\ pos <= Len(raw)
    /\ pos' = pos + 1
    /\ LET game == raw[pos]
           k == IndexOf(gamesdict, game.dh_id)
           m == merge_game(gamesdict[k], game)
       IN  IF k # 0
           THEN /\ merged' = [kind |-> m.kind, game |-> m.game]
                /\ gamesdict' = [gamesdict EXCEPT ![k] = m.game]
                /\ raw' = [raw EXCEPT ![pos] = m.entry2]
           ELSE /\ gamesdict' = Append(gamesdict, game)
                /\ UNCHANGED <<raw, merged>>
    /\ UNCHANGED pc
    /\ UNCHANGED hltbvars

\* merge_game called on its own, on the first two games of the input
MergeGame ==
    /\ pc = "create"
    /\ pos = 1
    /\ Len(raw) >= 2
    /\ pc' = "merged"
    /\ LET m == merge_game(raw[1], raw[2])
       IN  /\ merged' = [kind |-> m.kind, game |-> m.game]
           /\ raw' = [raw EXCEPT ![1] = m.entry1, ![2] = m.entry2]
    /\ UNCHANGED <<gamesdict, pos>>
    /\ UNCHANGED hltbvars

\* create_dh_gamelist returns gamesdict.values() and __main__ constructs
\* HLTB(args=args, games=games); hltb.run() is next
Construct ==
    /\ pc = "create"
    /\ pos > Len(raw)
    /\ pc' = "load_cache"
    /\ games' = gamesdict
    /\ searched' = [i \in 1..Len(gamesdict) |-> <<>>]
    /\ status' = [i \in 1..Len(gamesdict) |-> "pending"]
    /\ raw' = <<>>
    /\ gamesdict' = <<>>
    /\ pos' = 0
    /\ merged' = NoMerge
    /\ UNCHANGED <<rerun, now, args, mapping_file, file, cache, mapping,
                   ignored, pruned, idx, query_errors, title, tried_our_best,
                   results, hltb_result, exc, exit_code, exported>>

\* the merge of the input, and the run up to the end of its loop
NextMerge ==
    \/ CreateStep
    \/ MergeGame
    \/ Construct
    \/ LoadCache
    \/ LoadMapping
    \/ LoopNext
    \/ RunSearch

SpecMerge == InitMerge /\ [][NextMerge]_vars

\* ================================================================ properties

\* the staleness rule, spelled out: no timestamp, or a TTL of zero or less, or
\* an age of more than cache_ttl days
StaleRule(ts, ttl, t) ==
    \/ ts = None
    \/ ttl <= 0
    \/ t - ts * TicksPerSecond > ttl * SecondsPerDay * TicksPerSecond

\* the store on disk holds this item under this key
InStore(id, item) == \E k \in 1..Len(file.text) : file.text[k] = <<id, item>>

\* the keys of the store on disk
StoreKeys == {file.text[k][1] : k \in 1..Len(file.text)}

\* the record the answer in results belongs to
cur == IF pc = "loop" THEN idx - 1 ELSE idx

\* query_hltb has left its search loop with the answer in results
Answered == results.kind # "unset" /\ pc # "search"

\* C1: whenever the process has exited (normally, after KeyboardInterrupt,
\* after HLTBError or after another exception in hltb.run()), save_cache has
\* written cache.yaml completely and the store holds the resolution of every
\* record accepted in this run.
C1_CacheSavedOnEveryExit ==
    pc = "exit" =>
        /\ file.exists /\ file.whole
        /\ \A i \in 1..Len(games) :
              status[i] = "accepted" =>
                  /\ games[i].hltb_query_ts # None
                  /\ InStore(games[i].dh_id, CacheItem(games[i]))

\* C1 witness: the run was interrupted after one record was accepted and
\* before another was reached
C1_Witness ==
    /\ pc = "exit"
    /\ exc = "KeyboardInterrupt"
    /\ \E i \in 1..Len(games) : status[i] = "accepted"
    /\ \E i \in 1..Len(games) : status[i] = "pending"

\* C2: every answer None of search(), to the first search or to the fallback
\* search, raises HLTBError; it is never taken for an empty answer.
C2_NoneIsConnectionFailure ==
    results.kind = "None" => exc = "HLTBError"

\* C3: a killed process leaves cache.yaml absent or whole (the previous or
\* the new store), never cut short.
C3_SaveIsAtomic ==
    pc = "killed" => file.whole

\* C4: a step of the loop that reaches a record whose timestamp is not stale
\* at that time issues no search and changes no record; and a record reported
\* fresh has never been searched for and holds the fields of its cache entry.
C4_FreshIsNotResolved ==
    /\ [][ ( /\ pc = "loop" /\ pc' \in {"loop", "search"}
             /\ idx <= Len(games)
             /\ ~StaleRule(games[idx].hltb_query_ts, args.cache_ttl, now') )
           => ( /\ pc' = "loop" /\ idx' = idx + 1
                /\ searched' = searched /\ games' = games ) ]_vars
    /\ [](\A i \in 1..Len(games) :
            status[i] = "fresh" =>
                /\ searched[i] = <<>>
                /\ games[i].dh_id \in DOMAIN cache
                /\ cache[games[i].dh_id] = CacheItem(games[i]))

\* C4 witness: a record loaded from the store of the first run was found fresh
C4_Witness ==
    /\ rerun
    /\ \E i \in 1..Len(games) :
          status[i] = "fresh" /\ Truthy(games[i].hltb_id)

\* C5: when load_cache has read an existing store, the cache holds no stale
\* entry and no record holds the fields of a stale entry; and at exit the
\* store holds no entry for a pruned key unless its record was accepted.
C5_StaleEntriesArePruned ==
    /\ (pc = "load_mapping" /\ file.exists) =>
          /\ \A id \in DOMAIN cache :
                ~StaleRule(cache[id].hltb_query_ts, args.cache_ttl, now)
          /\ \A k \in 1..Len(file.text) :
                StaleRule(file.text[k][2].hltb_query_ts, args.cache_ttl, now) =>
                    /\ file.text[k][1] \notin DOMAIN cache
                    /\ file.text[k][1] \in pruned
                    /\ \A i \in 1..Len(games) :
                          games[i].dh_id = file.text[k][1] => ~HasCacheData(games[i])
    /\ pc = "exit" =>
          \A id \in pruned :
              (\A i \in 1..Len(games) :
                  games[i].dh_id = id => status[i] # "accepted")
              => id \notin StoreKeys

\* C5 witness: an entry was pruned, its record was not accepted, and the
\* store saved at exit has no entry for it
C5_Witness ==
    /\ pc = "exit"
    /\ \E i \in 1..Len(games) :
          /\ games[i].dh_id \in pruned
          /\ status[i] = "nomatch"
          /\ games[i].dh_id \notin StoreKeys

\* C6: the loop resolves a record it does not skip as ignored exactly if the
\* record's timestamp is stale when the loop reaches it: no timestamp, or
\* cache_ttl <= 0, or now - resolved_at > cache_ttl days.
C6_TtlBoundary ==
    [][ ( /\ pc = "loop" /\ pc' \in {"loop", "search"}
          /\ idx <= Len(games)
          /\ ~(games[idx].dh_id \in ignored /\ ~args.include_ignored) )
        => ( pc' = "search"
               <=> StaleRule(games[idx].hltb_query_ts, args.cache_ttl, now') ) ]_vars

\* C6 witness: a record resolved exactly cache_ttl days ago was found fresh
C6_Witness ==
    /\ pc = "loop"
    /\ idx > 1
    /\ status[idx - 1] = "fresh"
    /\ args.cache_ttl > 0
    /\ now - games[idx - 1].hltb_query_ts * TicksPerSecond
          = args.cache_ttl * SecondsPerDay * TicksPerSecond

\* what save_cache wrote is the cache, key by key
StoreIsCache ==
    /\ StoreKeys = DOMAIN cache
    /\ Len(file.text) = Cardinality(DOMAIN cache)
    /\ \A id \in DOMAIN cache : InStore(id, cache[id])

\* load_cache keeps exactly the entries of the store that are not stale at
\* time t, unchanged
LoadKeepsFreshAt(t) ==
    \A k \in 1..Len(file.text) :
        LET id == file.text[k][1]
            item == file.text[k][2]
        IN  IF StaleRule(item.hltb_query_ts, args.cache_ttl, t)
            THEN id \notin DOMAIN cache'
            ELSE id \in DOMAIN cache' /\ cache'[id] = item

\* C7 as stated: the load of the second run keeps exactly the entries that
\* were not stale when the first run saved them.
C7_RoundTripAtSaveTime ==
    [][ (pc = "load_cache" /\ pc' = "load_mapping" /\ file.exists)
        => LoadKeepsFreshAt(now) ]_vars

\* C7 amended: the store save_cache leaves at exit is the cache, entry by
\* entry, and the load of the next run keeps, unchanged, exactly the entries
\* that are not stale when they are loaded.
C7_RoundTripAtLoadTime ==
    /\ [](pc = "exit" => StoreIsCache)
    /\ [][ (pc = "load_cache" /\ pc' = "load_mapping" /\ file.exists)
           => LoadKeepsFreshAt(now') ]_vars

\* C7 witness: of two saved entries the load kept one and dropped the other
C7_Witness ==
    /\ rerun
    /\ pc = "load_mapping"
    /\ pruned # {}
    /\ DOMAIN cache # {}

\* the title normalised: colon, en-dash and hyphen become blanks, runs of
\* blanks collapse, the ends are trimmed
Normalized(name) ==
    Strip(JoinSplit(Replace(Replace(Replace(name, ":"), "~"), "-")))

\* C8: a resolve call searches at most twice; the second search is made with
\* the normalised title and only after an empty first answer; after a
\* non-empty answer or a second search the call searches no more, and an
\* empty answer to the fallback search is NoMatch.
C8_OneFallbackSearch ==
    /\ \A i \in 1..Len(searched) :
          /\ Len(searched[i]) <= 2
          /\ Len(searched[i]) = 2 => searched[i][2] = Normalized(searched[i][1])
    /\ results.kind # "unset" =>
          /\ Len(searched[cur]) >= 1
          /\ (results.kind = "list" /\ results.list = <<>>
                 /\ Len(searched[cur]) = 1)
               => (pc = "search" /\ tried_our_best)
          /\ (results.list # <<>> \/ Len(searched[cur]) = 2) => pc # "search"
          /\ (results.kind = "list" /\ results.list = <<>>
                 /\ Len(searched[cur]) = 2)
               => (hltb_result.kind = "none" /\ status[cur] = "nomatch")
    /\ pc = "search" =>
          (tried_our_best <=> Len(searched[idx]) = 1)

\* C8 witness: both searches came back empty and the record is NoMatch
C8_Witness ==
    /\ Answered
    /\ Len(searched[cur]) = 2
    /\ searched[cur][2] # searched[cur][1]
    /\ results.kind = "list" /\ results.list = <<>>
    /\ status[cur] = "nomatch"

\* the record under resolution has no forced remote id
FreeText == games[cur].dh_id \notin DOMAIN mapping

\* the greatest similarity of the answer is reached by two candidates
TieAtTop ==
    \E i, j \in 1..Len(results.list) :
        /\ i # j
        /\ results.list[i].similarity = results.list[j].similarity
        /\ \A k \in 1..Len(results.list) :
              results.list[k].similarity <= results.list[i].similarity

\* C9: on the free-text path a tie of the two best candidates is NoMatch.
C9_TieIsNoMatch ==
    (Answered /\ FreeText /\ TieAtTop) =>
        (hltb_result.kind = "none" /\ status[cur] = "nomatch")

\* the candidates of the answer that bear the forced remote id
WithTargetId ==
    {i \in 1..Len(results.list) :
        results.list[i].game_id = mapping[games[cur].dh_id].hltb_id}

\* C10: on the override path a non-empty answer is accepted exactly if one
\* candidate bears the forced remote id, and then that candidate is the one
\* accepted; otherwise the outcome is NoMatch.
C10_OverrideExactlyOne ==
    (Answered /\ ~FreeText /\ results.list # <<>>) =>
        IF Cardinality(WithTargetId) = 1
        THEN /\ hltb_result.kind = "entry"
             /\ status[cur] = "accepted"
             /\ \E i \in WithTargetId : hltb_result.entry = results.list[i]
             /\ games[cur].hltb_id = mapping[games[cur].dh_id].hltb_id
        ELSE /\ hltb_result.kind = "none"
             /\ status[cur] = "nomatch"
             /\ games[cur].hltb_id = None

\* C10 witness: the candidate with the forced id was accepted although
\* another candidate was more similar and bore the record's title
C10_Witness ==
    /\ Answered /\ ~FreeText
    /\ hltb_result.kind = "entry"
    /\ \E i \in 1..Len(results.list) :
          /\ results.list[i].game_id # hltb_result.entry.game_id
          /\ results.list[i].similarity > hltb_result.entry.similarity
          /\ results.list[i].game_name = games[cur].title

\* the most similar candidate of the answer
Top ==
    results.list[CHOOSE i \in 1..Len(results.list) :
                    \A k \in 1..Len(results.list) :
                        results.list[k].similarity <= results.list[i].similarity]

\* the candidate bears the title: its name or its alias is the title, or is
\* the title up to letter case and punctuation; an absent alias bears nothing
BearsTitle(c, t) ==
    \/ c.game_name = t
    \/ c.game_alias = t
    \/ \E n \in {c.game_name, c.game_alias} \ {NoneStr} :
          Casefold(Normalized(n)) = Casefold(Normalized(t))

\* C11: on the free-text path, when one candidate alone has the greatest
\* similarity, that candidate is accepted exactly if it bears the record's
\* own title (by name, by alias, or up to case and punctuation); otherwise
\* the outcome is NoMatch.
C11_UniqueTopAcceptedIffBearsTitle ==
    (Answered /\ FreeText /\ results.list # <<>> /\ ~TieAtTop) =>
        IF BearsTitle(Top, games[cur].title)
        THEN /\ hltb_result.kind = "entry"
             /\ hltb_result.entry = Top
             /\ status[cur] = "accepted"
        ELSE /\ hltb_result.kind = "none"
             /\ status[cur] = "nomatch"

\* C12: every call of query_hltb ends as Accepted, NoMatch or HLTBError and
\* in no other failure, also for candidates without alias; a single candidate
\* without alias whose name is the title up to punctuation is accepted.
C12_ResolveIsTotal ==
    Answered =>
        /\ \/ hltb_result.kind = "entry" /\ status[cur] = "accepted"
           \/ hltb_result.kind = "none" /\ status[cur] = "nomatch"
           \/ hltb_result.kind = "raise" /\ exc = "HLTBError"
        /\ ( /\ FreeText
             /\ Len(results.list) = 1
             /\ results.list[1].game_alias = NoneStr
             /\ Normalized(results.list[1].game_name)
                  = Normalized(games[cur].title) )
           => hltb_result.kind = "entry"

\* the orders in which the provider can return the candidates of the answer
Reordered ==
    LET n == Len(results.list)
        perms == {p \in [1..n -> 1..n] : \A i, j \in 1..n : p[i] = p[j] => i = j}
    IN  {[i \in 1..n |-> results.list[p[i]]] : p \in perms}

\* C13: the outcome of query_hltb, and the candidate accepted, is the same
\* for every order in which the provider returns the candidates.
C13_OrderIndependent ==
    (Answered /\ results.list # <<>>) =>
        \A l \in Reordered :
            Select(games[cur].title, TargetId(games[cur]), l) = hltb_result

\* C14: the step that accepts a candidate for a record sets the record's four
\* playtimes and its hltb_id to the candidate's values and its timestamp to
\* the current time (in whole seconds, as the timestamp is written); dh_id,
\* title, year and the status fields keep their values, and no other record
\* changes.
C14_AcceptedUpdatesOnlyResolution ==
    [][ (pc = "search" /\ pc' = "loop" /\ status'[idx] = "accepted") =>
          /\ hltb_result'.kind = "entry"
          /\ \E k \in 1..Len(results'.list) :
                results'.list[k] = hltb_result'.entry
          /\ games'[idx] =
                [dh_id |-> games[idx].dh_id,
                 title |-> games[idx].title,
                 year |-> games[idx].year,
                 wantplay |-> games[idx].wantplay,
                 finished |-> games[idx].finished,
                 finished_ts |-> games[idx].finished_ts,
                 owned |-> games[idx].owned,
                 hltb_id |-> hltb_result'.entry.game_id,
                 time_main |-> hltb_result'.entry.main_story,
                 time_extra |-> hltb_result'.entry.main_extra,
                 time_complete |-> hltb_result'.entry.completionist,
                 time_all |-> hltb_result'.entry.all_styles,
                 hltb_query_ts |-> now' \div TicksPerSecond]
          /\ Len(games') = Len(games)
          /\ \A i \in 1..Len(games) : i # idx => games'[i] = games[i] ]_vars

\* C14 witness: a record was accepted past the start of a second, with a
\* candidate that replaced an earlier resolution, next to another resolved
\* record
C14_Witness ==
    /\ pc = "loop" /\ Answered
    /\ status[cur] = "accepted"
    /\ rerun
    /\ games[cur].hltb_id = hltb_result.entry.game_id
    /\ games[cur].dh_id \in DOMAIN cache
    /\ cache[games[cur].dh_id].hltb_id # games[cur].hltb_id
    /\ games[cur].hltb_query_ts * TicksPerSecond < now
    /\ \E i \in 1..Len(games) : i # cur /\ games[i].hltb_id # None

\* the records of the collection with this report
WithStatus(st) == {i \in 1..Len(games) : status[i] = st}

\* run() has left its loop by its end, not by an exception
LoopDone ==
    pc \in {"save_open", "save_write", "export", "exit"} /\ exc = "none"

\* C15 as stated: the error count is the number of records that ended in
\* NoMatch, and a run that has reached the end of its loop has visited every
\* record.
C15_EveryNoMatchCounted ==
    /\ query_errors = Cardinality(WithStatus("nomatch"))
    /\ LoopDone => WithStatus("pending") = {}

\* C15 amended: a NoMatch leaves the run in its loop at the next record; the
\* error count is the number of records that ended in NoMatch and are not on
\* the ignored list (a NoMatch of a force-included ignored record is not
\* counted); and when run() has reached the end of its loop every record has
\* been visited.
C15_NoMatchOfNotIgnoredCounted ==
    /\ (Answered /\ hltb_result.kind = "none") =>
          (pc = "loop" /\ exc = "none" /\ status[cur] = "nomatch"
             /\ idx = cur + 1)
    /\ query_errors =
          Cardinality({i \in WithStatus("nomatch") : games[i].dh_id \notin ignored})
    /\ LoopDone => WithStatus("pending") = {}

\* C15 witness: the run ended with two records in NoMatch, one of them a
\* force-included ignored record, and an error count of one
C15_Witness ==
    /\ pc = "exit" /\ exc = "none"
    /\ Cardinality(WithStatus("nomatch")) = 2
    /\ \E i \in WithStatus("nomatch") : games[i].dh_id \in ignored
    /\ query_errors = 1

\* C16 as stated: the exit status is non-zero exactly when an HLTBError or a
\* KeyboardInterrupt ended the run; no number of NoMatch outcomes makes it
\* non-zero or keeps the records from export.
C16_ZeroUnlessFailureOrInterrupt ==
    pc = "exit" =>
        /\ exit_code # 0 <=> exc \in {"HLTBError", "KeyboardInterrupt"}
        /\ exc \notin {"HLTBError", "KeyboardInterrupt"} => exported

\* C16 amended: the exit status is non-zero exactly when an exception ended
\* the process: an HLTBError, a KeyboardInterrupt, or any other exception,
\* which __main__ raises again after the save; it is zero exactly when run()
\* returned and export() wrote the output, whatever the number of NoMatch
\* outcomes.
C16_ZeroIffNoException ==
    /\ pc = "exit" =>
          /\ exit_code \in {0, 1}
          /\ exit_code # 0 <=> exc \in {"HLTBError", "KeyboardInterrupt", "Other"}
          /\ exit_code = 0 <=> exported
    /\ pc # "exit" => (exit_code = None /\ ~exported)
    /\ (LoopDone /\ pc = "exit") => exported

\* C16 witness: the process exited with status 0 after export although
\* records ended in NoMatch and errors were counted
C16_Witness ==
    /\ pc = "exit" /\ exit_code = 0 /\ exported
    /\ WithStatus("nomatch") # {}
    /\ query_errors > 0

\* a record was under resolution when an HLTBError or a KeyboardInterrupt
\* ended run()
StoppedAtRecord ==
    /\ pc = "exit"
    /\ exc \in {"HLTBError", "KeyboardInterrupt"}
    /\ idx \in 1..Len(games)

\* C17: after an answer None of search() no later record is taken up; and
\* when an HLTBError or a KeyboardInterrupt ended the run at record idx, no
\* later record was searched for, export() was not performed and, in a run
\* that started without cache file, the keys of the store are the records
\* accepted before idx.
C17_FailureStopsRun ==
    /\ results.kind = "None" => pc \notin {"loop", "search"}
    /\ StoppedAtRecord =>
          /\ \A i \in (idx + 1)..Len(games) :
                searched[i] = <<>> /\ status[i] = "pending"
          /\ ~exported
          /\ ~rerun =>
                StoreKeys = {games[i].dh_id : i \in WithStatus("accepted")}
          /\ WithStatus("accepted") \subseteq 1..(idx - 1)

\* C18: of the records the loop has passed, those reported ignored are the
\* ones on the ignored list when --include-ignored is not given; such a
\* record was never searched for and holds what load_cache gave it (the
\* fields of its cache entry, or none); with --include-ignored a record on
\* the ignored list is reported fresh, accepted or NoMatch like any other.
C18_IgnoredNotResolved ==
    \A i \in 1..Len(games) :
        /\ i < idx =>
              /\ status[i] \in {"ignored", "fresh", "accepted", "nomatch"}
              /\ status[i] = "ignored"
                   <=> (games[i].dh_id \in ignored /\ ~args.include_ignored)
        /\ status[i] = "ignored" =>
              /\ searched[i] = <<>>
              /\ IF games[i].dh_id \in DOMAIN cache
                 THEN CacheItem(games[i]) = cache[games[i].dh_id]
                 ELSE games[i] = Game(games[i].dh_id, games[i].title)

\* C18 witness: a record on the ignored list that a run with
\* --include-ignored had resolved is skipped by the next run, without the
\* flag, next to a record that run resolves
C18_Witness ==
    /\ rerun
    /\ \E i \in 1..Len(games) :
          /\ status[i] = "ignored"
          /\ games[i].hltb_id # None
    /\ \E i \in 1..Len(games) : status[i] = "accepted"

\* entry a with each of its unset attributes taken from entry b
Filled(a, b) ==
    [dh_id |-> IF a.dh_id # None THEN a.dh_id ELSE b.dh_id,
     title |-> IF a.title # NoneStr THEN a.title ELSE b.title,
     year |-> IF a.year # None THEN a.year ELSE b.year,
     wantplay |-> IF a.wantplay # None THEN a.wantplay ELSE b.wantplay,
     finished |-> IF a.finished # None THEN a.finished ELSE b.finished,
     finished_ts |-> IF a.finished_ts # None THEN a.finished_ts
                                             ELSE b.finished_ts,
     owned |-> IF a.owned # None THEN a.owned ELSE b.owned,
     hltb_id |-> IF a.hltb_id # None THEN a.hltb_id ELSE b.hltb_id,
     time_main |-> IF a.time_main # None THEN a.time_main ELSE b.time_main,
     time_extra |-> IF a.time_extra # None THEN a.time_extra ELSE b.time_extra,
     time_complete |-> IF a.time_complete # None THEN a.time_complete
                                                 ELSE b.time_complete,
     time_all |-> IF a.time_all # None THEN a.time_all ELSE b.time_all,
     hltb_query_ts |-> IF a.hltb_query_ts # None THEN a.hltb_query_ts
                                                 ELSE b.hltb_query_ts]

\* the games with this dh_id among the first n of the input, in input order
WithId(dh_id, n) ==
    LET same(g) == g.dh_id = dh_id IN SelectSeq(SubSeq(raw, 1, n), same)

\* the first game of a list, filled from the games that follow it
RECURSIVE FilledFrom(_)
FilledFrom(gs) ==
    IF Len(gs) = 1 THEN gs[1] ELSE Filled(gs[1], FilledFrom(Tail(gs)))

\* C19: merge_game on two games of one dh_id returns entry1 with each unset
\* attribute taken from entry2 (a set attribute of entry1 wins, also a falsy
\* one) and changes neither argument; and the game create_dh_gamelist holds
\* for a dh_id is made of the input games of that dh_id alone, in their
\* order, wherever the games of other dh_id stand.
C19_MergeFillsUnset ==
    /\ []( (pc = "merged" /\ raw[1].dh_id = raw[2].dh_id) =>
              merged = [kind |-> "game", game |-> Filled(raw[1], raw[2])] )
    /\ []( pc = "create" =>
              \A k \in 1..Len(gamesdict) :
                  /\ WithId(gamesdict[k].dh_id, pos - 1) # <<>>
                  /\ gamesdict[k] = FilledFrom(WithId(gamesdict[k].dh_id, pos - 1)) )
    /\ [][pc' \in {"create", "merged"} => raw' = raw]_vars

\* C19 witness: create_dh_gamelist has merged two games of one dh_id that
\* stand on both sides of a game of another dh_id: the year came from the
\* second, the first kept its wantplay of False
C19_Witness ==
    /\ pc = "create" /\ pos > Len(raw) /\ Len(raw) = 3
    /\ raw[1].dh_id = raw[3].dh_id /\ raw[1].dh_id # raw[2].dh_id
    /\ raw[1].year = None /\ raw[3].year # None
    /\ raw[1].wantplay = 0 /\ raw[3].wantplay = 1
    /\ merged.kind = "game"
    /\ merged.game.year = raw[3].year /\ merged.game.wantplay = 0

\* C20: merge_game on two games of different dh_id raises ValueError and
\* returns no game; create_dh_gamelist never runs into it.
C20_DifferentIdsRaise ==
    /\ (pc = "merged" /\ raw[1].dh_id # raw[2].dh_id) =>
          merged = [kind |-> "ValueError", game |-> NoMerge.game]
    /\ merged.kind = "ValueError" =>
          (pc = "merged" /\ raw[1].dh_id # raw[2].dh_id)

\* C20 witness: merge_game was called on games of different dh_id and raised
C20_Witness ==
    /\ pc = "merged"
    /\ raw[1].dh_id # raw[2].dh_id
    /\ merged.kind = "ValueError"

\* the dh_id of the games of a list, in the order of the list
IdsOf(gs) == [k \in 1..Len(gs) |-> gs[k].dh_id]

\* the dh_id of the first n games of the input, each at its first occurrence
FirstSeen(n) ==
    LET first(i) == \A j \in 1..(i - 1) : raw[j].dh_id # raw[i].dh_id
        idxs == SelectSeq([i \in 1..n |-> i], first)
    IN  [k \in 1..Len(idxs) |-> raw[idxs[k]].dh_id]

\* C21: while create_dh_gamelist takes the input games in their order,
\* gamesdict holds one game per dh_id met, in the order of first occurrence,
\* and a duplicate leaves every game at its place; HLTB gets the games in
\* that order, and run() takes them one at a time in that order: the games
\* before idx are done, those past it untouched.
C21_OnePerIdInFirstSeenOrder ==
    /\ []( pc = "create" =>
              /\ IdsOf(gamesdict) = FirstSeen(pos - 1)
              /\ \A k, l \in 1..Len(gamesdict) :
                    gamesdict[k].dh_id = gamesdict[l].dh_id => k = l )
    /\ [][ (pc = "create" /\ pc' = "create") =>
              /\ Len(gamesdict') >= Len(gamesdict)
              /\ \A k \in 1..Len(gamesdict) :
                    gamesdict'[k].dh_id = gamesdict[k].dh_id ]_vars
    /\ [][ (pc = "create" /\ pc' = "load_cache") =>
              (pos > Len(raw) /\ games' = gamesdict) ]_vars
    /\ [][ (pc \in {"load_cache", "load_mapping", "loop", "search"}) =>
              /\ IdsOf(games') = IdsOf(games)
              /\ idx' \in {idx, idx + 1} ]_vars
    /\ []( pc \in {"loop", "search", "save_open"} =>
              \A i \in 1..Len(games) :
                  /\ i < idx => status[i] # "pending"
                  /\ i > idx => (status[i] = "pending" /\ searched[i] = <<>>) )

\* C21 witness: the input held a game, a game of another dh_id and then a
\* duplicate of the first; the duplicate was merged into the first place
C21_Witness ==
    /\ pc = "create" /\ pos > Len(raw) /\ Len(raw) = 3
    /\ raw[1].dh_id = raw[3].dh_id /\ raw[2].dh_id # raw[1].dh_id
    /\ Len(gamesdict) = 2
    /\ gamesdict[1].dh_id = raw[1].dh_id
    /\ gamesdict[1] # raw[1]
    /\ merged.kind = "game"

\* the six cache fields of the record are all unset
AllUnset(game) ==
    /\ game.hltb_id = None /\ game.time_main = None
    /\ game.time_extra = None /\ game.time_complete = None
    /\ game.time_all = None /\ game.hltb_query_ts = None

\* C22: the step that begins save_cache puts no entry into the cache for a
\* record that was never accepted and had no entry in the cache as loaded;
\* and in the store a finished save_cache wrote there is no entry for a
\* record whose six cache fields are all unset.
C22_NoEntryForEmptyRecord ==
    /\ [][ (pc \in {"loop", "search", "save_open"} /\ pc' = "save_write") =>
              \A i \in 1..Len(games) :
                  ( /\ status[i] # "accepted"
                    /\ games[i].dh_id \notin DOMAIN cache )
                  => ( /\ AllUnset(games[i])
                       /\ games[i].dh_id \notin DOMAIN cache' ) ]_vars
    /\ []( pc \in {"export", "exit"} =>
              \A i \in 1..Len(games) :
                  AllUnset(games[i]) => games[i].dh_id \notin StoreKeys )

\* C22 witness: a record whose entry of the previous store was stale ended
\* in NoMatch, and the new store has entries, but none for it
C22_Witness ==
    /\ pc = "exit" /\ rerun
    /\ StoreKeys # {}
    /\ \E i \in 1..Len(games) :
          /\ status[i] = "nomatch"
          /\ games[i].dh_id \in pruned
          /\ AllUnset(games[i])
          /\ games[i].dh_id \notin StoreKeys

\* the dh_id of the games of the input of this run
InputIds == {games[i].dh_id : i \in 1..Len(games)}

\* C23: load_cache keeps, unchanged, every entry of the store that is not
\* stale at load time and whose dh_id is not in the input; no later step of
\* the run adds, drops or changes a cache entry of a dh_id that is not in
\* the input; and the store a finished save_cache wrote holds each of these
\* entries as it was.
C23_FreshEntriesOfOtherGamesKept ==
    /\ [][ (pc = "load_cache" /\ pc' = "load_mapping" /\ file.exists) =>
              \A k \in 1..Len(file.text) :
                  LET id == file.text[k][1]
                      item == file.text[k][2]
                  IN  ( /\ id \notin InputIds
                        /\ ~StaleRule(item.hltb_query_ts, args.cache_ttl, now') )
                      => (id \in DOMAIN cache' /\ cache'[id] = item) ]_vars
    /\ [][ ( /\ pc \in {"load_mapping", "loop", "search", "save_open",
                        "save_write", "export"}
             /\ pc' # "killed" ) =>
              \A id \in (DOMAIN cache \cup DOMAIN cache') \ InputIds :
                  /\ id \in DOMAIN cache /\ id \in DOMAIN cache'
                  /\ cache'[id] = cache[id] ]_vars
    /\ []( pc \in {"export", "exit"} =>
              /\ StoreKeys \subseteq DOMAIN cache
              /\ \A id \in DOMAIN cache \ InputIds : InStore(id, cache[id]) )

\* C23 witness: the second run, on an input without a game the first run
\* resolved, accepted a record and saved: the store still has the entry of
\* the other game
C23_Witness ==
    /\ pc = "exit" /\ rerun
    /\ \E i \in 1..Len(games) : status[i] = "accepted"
    /\ \E id \in StoreKeys \ InputIds :
          \E k \in 1..Len(file.text) :
              /\ file.text[k][1] = id
              /\ file.text[k][2].hltb_id # None
              /\ file.text[k][2].hltb_query_ts # None

====
